---- MODULE Spec2Model ----
(***************************************************************************)
(* rememo: memoization of function results keyed by the call arguments.    *)
(*                                                                         *)
(* The local part models rememo.Memoizer with its subclasses               *)
(* TrackingMemoizer and LRUCache: one memoizer object used sequentially,   *)
(* every public call (a call of a memoized wrapper, get_result,            *)
(* remove_from_cache) being one atomic action.                             *)
(*                                                                         *)
(* The distributed part models rememo.templates.shared: the nodes are      *)
(* processes that each construct a RemoteCacheWrapper for one address and  *)
(* authkey; a node's steps are the places where it reaches the address     *)
(* (connect, bind, one item operation), so that the steps of different     *)
(* nodes interleave. SharedMemoizer is modelled in sequential use against  *)
(* a Host that stays up.                                                   *)
(***************************************************************************)
EXTENDS Integers, Sequences, FiniteSets, TLC

\* ------------------------------------------------------------------ bounds

\* invocations of the user functions, all together
MaxCalls == 2
\* get_result invocations on a TrackingMemoizer
MaxLookups == 3
\* largest max_cache_size an LRUCache is constructed with
MaxCapacity == 2
\* Hosts that are killed
MaxKills == 2
MaxHangs == 1

\* ------------------------------------------------------------------ state

VARIABLES
    cls,              \* class of the memoizer object
    sort_kwargs,      \* Memoizer.sort_kwargs
    max_cache_size,   \* LRUCache.max_cache_size
    results_cache,    \* Memoizer.results_cache: function -> (params -> result)
    cache_queue,      \* LRUCache.cache_queue: sequence of <<function, params>>
    hits_total,       \* TrackingMemoizer counters
    misses_total,
    hits_by_func,
    misses_by_func,
    called_count,     \* invocations of each user function (the tests' called_count)
    hist,             \* history: get_result invocations made and returned
                      \* (TrackingMemoizer); the cached pairs by last lookup, the
                      \* evictions of the last call, whether remove_from_cache
                      \* was ever called and the entries stored before it was,
                      \* counted up to max_cache_size + 1 (LRUCache)
    last,             \* the last public call: its kind, whether it found (or
                      \* removed) an entry, and the exception it raised
    node,             \* each node: where its RemoteCacheWrapper is in its
                      \* constructor or in a remote call, and how the call ended
    cache_server,     \* RemoteCacheWrapper.cache_server of each node: the
                      \* CacheServer it started, with CacheServer.cache
    env               \* history: Hosts killed so far, whether a node was
                      \* started while another was inside its constructor, and
                      \* the latest value set for each key of the Host

vars == <<cls, sort_kwargs, max_cache_size, results_cache, cache_queue,
          hits_total, misses_total, hits_by_func, misses_by_func,
          called_count, hist, last, node, cache_server, env>>

\* ------------------------------------------------------------------ values

None == "None"

\* the user functions: f is decorated with memoized(), g is a plain function
\* that is looked up through get_result only
Functions == {"f", "g"}
Memoized == {"f"}

\* a callable reference: the original function, or the wrapper memoized() made
Ref(fn, w) == [name |-> fn, wrapper |-> w]
Refs == {Ref(fn, FALSE) : fn \in Functions} \cup {Ref(fn, TRUE) : fn \in Memoized}
NoRef == [name |-> None, wrapper |-> FALSE]

\* getattr(function, '__wrapped__', None)
wrapped_func(function) ==
    IF function.wrapper THEN Ref(function.name, FALSE) ELSE NoRef

\* an argument set: positional values and keyword items in call order
Args(p, k) == [args |-> p, kwargs |-> k]
NoArgs == Args(<<>>, <<>>)
Positional == {Args(<<1>>, <<>>), Args(<<2>>, <<>>)}
Keyword == {Args(<<>>, << <<"x", 1>>, <<"y", 2>> >>),
            Args(<<>>, << <<"y", 2>>, <<"x", 1>> >>)}
BadArgs == Args(<<0>>, <<>>)
FlakyArgs == Args(<<3>>, <<>>)
\* 4 stands for an argument pickle.dumps refuses, such as a lambda
UnpicklableArgs == Args(<<4>>, <<>>)

\* the argument sets each user function is called with
ArgsOf(fn) ==
    IF fn = "g" THEN {Args(<<1>>, <<>>)}
    ELSE IF cls = "LRUCache" THEN Positional \cup {BadArgs, UnpicklableArgs}
    ELSE IF cls = "SharedMemoizer" THEN Positional \cup {NoArgs, BadArgs}
    ELSE Positional \cup Keyword \cup {BadArgs, FlakyArgs, UnpicklableArgs}

NoValue == [fn |-> None, t |-> 0, a |-> NoArgs]

\* dict helpers
EmptyDict == <<>>
Put(d, k, v) == [x \in (DOMAIN d) \cup {k} |-> IF x = k THEN v ELSE d[x]]
Del(d, k) == [x \in (DOMAIN d) \ {k} |-> d[x]]

\* what a call gives back: the state after it, the exception raised (None when
\* it returned) and the value returned
Out(S, e, v) == [st |-> S, exc |-> e, value |-> v]

\* ------------------------------------------------------- key canonicalizer

NameOrd(n) == CASE n = "x" -> 1 [] n = "y" -> 2 [] OTHER -> 3

RECURSIVE Insert(_, _)
Insert(item, s) ==
    IF s = <<>> THEN <<item>>
    ELSE IF NameOrd(item[1]) <= NameOrd(Head(s)[1]) THEN <<item>> \o s
    ELSE <<Head(s)>> \o Insert(item, Tail(s))

\* a kwarg_sort_func that leaves the items in the order of the call
kwarg_sort_unsorted(items) == items

\* sorted(param_kwargs.items())
RECURSIVE kwarg_sort_func(_)
kwarg_sort_func(items) ==
    IF items = <<>> THEN <<>>
    ELSE Insert(Head(items), kwarg_sort_func(Tail(items)))

\* pickle.dumps((args, kwargs)): the bytes written follow the order of the
\* tuple and of the dict's items, and differ for different contents
make_hashable_func(p, k) == <<p, k>>

\* make_hashable_func is pickle.dumps, which raises for what it cannot pickle
Picklable(a) == a # UnpicklableArgs

process_params(a) ==
    LET param_kwargs == IF sort_kwargs = TRUE
                        THEN kwarg_sort_func(a.kwargs) ELSE a.kwargs
    IN make_hashable_func(a.args, param_kwargs)

\* ------------------------------------------------------------ user functions

\* f raises on the positional argument 0 and returns for every other argument
Raises(fn, a) == fn = "f" /\ a = BadArgs

\* the body of a user function, as in the tests: it counts its invocations
\* and returns a value that differs from one invocation to the next
\* (time.time(), v): here the number of the invocation with the arguments
\* f raises for FlakyArgs at its first invocation only: what it reads was
\* not ready
RaisesOnce(S, fn, a) == fn = "f" /\ a = FlakyArgs /\ S.called_count[fn] = 0

call_function(S, fn, a) ==
    LET n == S.called_count[fn] + 1
        S1 == [S EXCEPT !.called_count[fn] = n]
    IN IF Raises(fn, a) \/ RaisesOnce(S, fn, a) THEN Out(S1, "UserError", NoValue)
       ELSE Out(S1, None, [fn |-> fn, t |-> n, a |-> a])

\* ------------------------------------------------------------------ Memoizer

\* the memoizer object as the methods see it
Self ==
    [results_cache |-> results_cache, cache_queue |-> cache_queue,
     hits_total |-> hits_total, misses_total |-> misses_total,
     hits_by_func |-> hits_by_func, misses_by_func |-> misses_by_func,
     called_count |-> called_count,
     hist |-> [hist EXCEPT !.evictions = <<>>, !.fired = <<>>]]

Cached(rc, function, params) ==
    function \in DOMAIN rc /\ params \in DOMAIN rc[function]

\* every cached <<function, params>> pair
Pairs(rc) == UNION {{<<fu, k>> : k \in DOMAIN rc[fu]} : fu \in DOMAIN rc}

\* deque.remove(x): drops the first occurrence
RECURSIVE RemoveFirst(_, _)
RemoveFirst(q, x) ==
    IF q = <<>> THEN <<>>
    ELSE IF Head(q) = x THEN Tail(q)
    ELSE <<Head(q)>> \o RemoveFirst(Tail(q), x)

InSeq(q, x) == \E i \in 1..Len(q) : q[i] = x

RECURSIVE Keep(_, _)
Keep(q, set) ==
    IF q = <<>> THEN <<>>
    ELSE IF Head(q) \in set THEN <<Head(q)>> \o Keep(Tail(q), set)
    ELSE Keep(Tail(q), set)

\* history of an LRUCache: the cached pairs in the order of their last lookup,
\* and whether the latest lookup was a hit
Touch(S, fp, was_hit) ==
    [S EXCEPT !.hist.hit = was_hit,
              !.hist.recency = Append(Keep(@, Pairs(S.results_cache) \ {fp}), fp)]

Settle(S) ==
    [S EXCEPT !.hist.recency = Keep(@, Pairs(S.results_cache))]

\* a hook that lets the other entries of the function expire
handle_cache_decay_expiring(S, function, params, was_hit) ==
    Out([S EXCEPT !.results_cache[function] =
            [k \in (DOMAIN @) \cap {params} |-> @[k]]],
        None, NoValue)

\* Memoizer.handle_cache_decay: a placeholder
handle_cache_decay_Memoizer(S, function, params, was_hit) ==
    Out(S, None, NoValue)

\* a handle_cache_decay that counts the hits only
handle_cache_decay_hits_only(S, function, params, was_hit) ==
    IF was_hit
    THEN [st |-> [S EXCEPT !.hits_total = @ + 1,
                           !.hits_by_func = Put(@, function,
                               IF function \in DOMAIN @ THEN @[function] + 1 ELSE 1)],
          exc |-> None, value |-> NoValue]
    ELSE Out(S, None, NoValue)

\* TrackingMemoizer.handle_cache_decay
handle_cache_decay_Tracking(S, function, params, was_hit) ==
    LET hb == IF function \in DOMAIN S.hits_by_func
              THEN S.hits_by_func ELSE Put(S.hits_by_func, function, 0)
        mb == IF function \in DOMAIN S.misses_by_func
              THEN S.misses_by_func ELSE Put(S.misses_by_func, function, 0)
        S1 == IF was_hit
              THEN [S EXCEPT !.hits_total = @ + 1,
                             !.hits_by_func = [hb EXCEPT ![function] = @ + 1],
                             !.misses_by_func = mb]
              ELSE [S EXCEPT !.misses_total = @ + 1,
                             !.hits_by_func = hb,
                             !.misses_by_func = [mb EXCEPT ![function] = @ + 1]]
    IN handle_cache_decay_Memoizer(S1, function, params, was_hit)

\* a handle_cache_decay that keeps the queue and never evicts
handle_cache_decay_no_eviction(S, function, params, was_hit) ==
    LET fp == <<function, params>>
        q1 == IF was_hit THEN RemoveFirst(S.cache_queue, fp) ELSE S.cache_queue
    IN Out([Touch(S, fp, was_hit) EXCEPT !.cache_queue = Append(q1, fp)],
           None, NoValue)

\* LRUCache.handle_cache_decay
handle_cache_decay_LRU(S, function, params, was_hit) ==
    LET fp == <<function, params>>
        T == Touch(S, fp, was_hit)
    IN IF was_hit /\ ~InSeq(S.cache_queue, fp)
       THEN Out(S, "ValueError", NoValue)
       ELSE
       LET q1 == IF was_hit THEN RemoveFirst(S.cache_queue, fp) ELSE S.cache_queue
           q2 == Append(q1, fp)
       IN IF Len(q2) > max_cache_size
          THEN LET old == Head(q2)
                   S3 == [T EXCEPT !.cache_queue = Tail(q2)]
                   eviction ==
                       [is_lru |-> old = Head(T.hist.recency),
                        exceeded |-> Cardinality(Pairs(T.results_cache))
                                         > max_cache_size,
                        after_hit |-> /\ S.hist.hit
                                     /\ S.hist.recency # <<>>
                                     /\ S.hist.recency[Len(S.hist.recency)] = old,
                        others |-> Pairs(T.results_cache) \ {old, fp} # {}]
               IN IF ~Cached(S3.results_cache, old[1], old[2])
                  THEN Out(S3, "KeyError", NoValue)
                  ELSE handle_cache_decay_Memoizer(
                           Settle([S3 EXCEPT
                                      !.results_cache[old[1]] = Del(@, old[2]),
                                      !.hist.evictions = Append(@, eviction)]),
                           function, params, was_hit)
          ELSE handle_cache_decay_Memoizer(
                   [T EXCEPT !.cache_queue = q2], function, params, was_hit)

\* a hook that runs its override twice
handle_cache_decay_twice(S, function, params, was_hit) ==
    LET once == handle_cache_decay_Tracking(S, function, params, was_hit)
    IN handle_cache_decay_Tracking(once.st, function, params, was_hit)

\* history: the calls of handle_cache_decay in the operation in progress, with
\* what the hook was given and what it found: whether the entry was in the
\* store, and the invocations made so far
Fired(S, function, params, was_hit) ==
    [S EXCEPT !.hist.fired =
        Append(@, [function |-> function, params |-> params, was_hit |-> was_hit,
                   stored |-> Cached(S.results_cache, function, params),
                   called |-> S.called_count])]

\* the override that the class of the object selects
handle_cache_decay(S, function, params, was_hit) ==
    CASE cls = "TrackingMemoizer" ->
             handle_cache_decay_Tracking(S, function, params, was_hit)
      [] cls = "LRUCache" ->
             handle_cache_decay_LRU(S, function, params, was_hit)
      [] OTHER -> handle_cache_decay_Memoizer(S, function, params, was_hit)

RECURSIVE get_result(_, _, _)

\* a wrapper that lets the exception of get_result reach its caller
memoized_reraise(S, fn, a) == get_result(S, Ref(fn, FALSE), a)

\* the wrapper memoized() returns for fn: get_result, and on any exception
\* a direct call of the function
memoized(S, fn, a) ==
    LET r == get_result(S, Ref(fn, FALSE), a)
    IN IF r.exc = None THEN r ELSE call_function(r.st, fn, a)

\* function(*args, **kwargs) for a reference that is a wrapper or an original
Invoke(S, function, a) ==
    IF function.wrapper THEN memoized(S, function.name, a)
    ELSE call_function(S, function.name, a)

\* a _call_and_add_result that calls the function and stores nothing
_call_and_drop_result(S, function, a) ==
    LET r == Invoke(S, function, a)
    IN IF r.exc # None THEN r ELSE Out(r.st, None, NoValue)

\* a _call_and_add_result that stores a placeholder when the function raised
_call_and_add_result_swallowing(S, function, a) ==
    LET r == Invoke(S, function, a)
        params == process_params(a)
    IN IF function \notin DOMAIN r.st.results_cache
       THEN Out(r.st, "KeyError", NoValue)
       ELSE Out([r.st EXCEPT !.results_cache[function] = Put(@, params, r.value)],
                None, NoValue)

\* Memoizer._call_and_add_result
_call_and_add_result(S, function, a) ==
    LET r == Invoke(S, function, a)
        params == process_params(a)
    IN IF r.exc # None THEN r
       ELSE IF function \notin DOMAIN r.st.results_cache
       THEN Out(r.st, "KeyError", NoValue)
       ELSE Out([r.st EXCEPT !.results_cache[function] = Put(@, params, r.value),
                             !.hist.stored =
                                 IF cls = "LRUCache" /\ ~r.st.hist.removed
                                    /\ @ <= max_cache_size
                                 THEN @ + 1 ELSE @],
                None, NoValue)

\* Memoizer.get_result
get_result(S, function, a) ==
    LET S0 == IF cls = "TrackingMemoizer"
              THEN [S EXCEPT !.hist.lookups = @ + 1] ELSE S
        S1 == IF function \in DOMAIN S0.results_cache THEN S0
              ELSE [S0 EXCEPT !.results_cache = Put(@, function, EmptyDict)]
        params == process_params(a)
        was_hit == params \in DOMAIN S1.results_cache[function]
        r == IF was_hit THEN Out(S1, None, NoValue)
             ELSE _call_and_add_result(S1, function, a)
    IN IF ~Picklable(a) THEN Out(S1, "PicklingError", NoValue)
       ELSE IF r.exc # None THEN r
       ELSE LET d == handle_cache_decay(Fired(r.st, function, params, was_hit),
                                        function, params, was_hit)
            IN IF d.exc # None THEN d
               ELSE IF ~Cached(d.st.results_cache, function, params)
               THEN Out(d.st, "KeyError", NoValue)
               ELSE Out(IF cls = "TrackingMemoizer"
                        THEN [d.st EXCEPT !.hist.returned = @ + 1] ELSE d.st,
                        None, d.st.results_cache[function][params])

\* the params a caller hands to Memoizer.remove_from_cache: None, the key
\* process_params gives for an argument set, or the bare arguments
Param(kind, a) == [kind |-> kind, a |-> a]
NoParams == Param(None, NoArgs)
ParamsOf(fn) ==
    {NoParams} \cup {Param("key", a) : a \in {x \in ArgsOf(fn) : Picklable(x)}}
               \cup {Param("raw", a) : a \in Positional}

\* params in self.results_cache[function]: the keys of the dict are the bytes
\* process_params returned, which only equal bytes compare equal to
InDict(d, params) ==
    params.kind = "key" /\ process_params(params.a) \in DOMAIN d

\* a remove_from_cache that raises when it finds nothing to remove
remove_from_cache_strict(S, function, params) ==
    LET w == wrapped_func(function)
        key == process_params(params.a)
        found == IF params = NoParams
                 THEN function \in DOMAIN S.results_cache
                      \/ (w # NoRef /\ w \in DOMAIN S.results_cache)
                 ELSE params.kind = "key"
                      /\ (Cached(S.results_cache, function, key)
                          \/ (w # NoRef /\ Cached(S.results_cache, w, key)))
    IN IF found
       THEN Out([S EXCEPT !.results_cache =
                    IF params = NoParams
                    THEN [x \in (DOMAIN @) \ {function, w} |-> @[x]]
                    ELSE [x \in DOMAIN @ |->
                             IF x \in {function, w} THEN Del(@[x], key) ELSE @[x]]],
                None, NoValue)
       ELSE Out(S, "KeyError", NoValue)

\* Memoizer.remove_from_cache
remove_from_cache(S, function, params) ==
    LET w == wrapped_func(function)
        rc == S.results_cache
    IN IF params # NoParams
       THEN LET rc1 == IF function \in DOMAIN rc /\ InDict(rc[function], params)
                       THEN [rc EXCEPT ![function] = Del(@, process_params(params.a))]
                       ELSE rc
                rc2 == IF w # NoRef /\ w \in DOMAIN rc1 /\ InDict(rc1[w], params)
                       THEN [rc1 EXCEPT ![w] = Del(@, process_params(params.a))]
                       ELSE rc1
            IN Out([S EXCEPT !.results_cache = rc2], None, NoValue)
       ELSE LET rc1 == IF function \in DOMAIN rc THEN Del(rc, function) ELSE rc
                rc2 == IF w # NoRef /\ w \in DOMAIN rc1 THEN Del(rc1, w) ELSE rc1
            IN Out([S EXCEPT !.results_cache = rc2], None, NoValue)

\* ------------------------------------------------------- RemoteCacheWrapper

\* the processes that construct a RemoteCacheWrapper for the one address
Nodes == {"n1", "n2", "n3"}

\* the keys of the Host's cache and the values of the item operations made on
\* a RemoteCacheWrapper
RemoteKeys == {"ab", "ba"}
RemoteValues == {"v1", "v2"}

NoServer == [listening |-> FALSE, cache |-> EmptyDict]

\* the nodes whose CacheServer listens at the address
Hosts == {n \in Nodes : cache_server[n].listening}

RemoteOp(kind, key, value) == [kind |-> kind, key |-> key, value |-> value]
NoOp == RemoteOp(None, None, None)

\* key[::-1], the preprocessor of test_preprocess_key
reverse(key) == CASE key = "ab" -> "ba" [] key = "ba" -> "ab" [] OTHER -> key

\* self.key_preprocessor of the RemoteCacheWrapper of node n: n2 was
\* constructed with the reversal, the others with the default lambda v: v
key_preprocessor(n, key) == IF n = "n2" THEN reverse(key) ELSE key

\* the keys a node passes to its RemoteCacheWrapper: the callers agree on the
\* entry they share, as cache and cache2 do in test_preprocess_key
KeysOf(n) == IF n = "n2" THEN {"ab"} ELSE {"ba"}

\* the item operations node n invokes, as its caller wrote them
RemoteOps(n) ==
    {RemoteOp(kind, key, None) : kind \in {"get", "delete", "contains"},
                                 key \in KeysOf(n)}
    \cup {RemoteOp("set", key, value) : key \in KeysOf(n), value \in RemoteValues}
    \cup {RemoteOp("str", None, None)}

\* args = (self.key_preprocessor(args[0]), *args[1:]) when preprocess_key is
\* True, which it is for all but __str__
preprocess(n, op) ==
    IF op.kind = "str" THEN op ELSE [op EXCEPT !.key = key_preprocessor(n, @)]

\* a retry that preprocesses the key it was given once more
retry_args_again(n, op) == preprocess(n, op)

\* the second function(self, *args) gets the args the wrapper rebound before
\* its try
retry_args(n, op) == op

\* a process in which no RemoteCacheWrapper was constructed yet
Absent ==
    [pc |-> "absent", op |-> NoOp, registered |-> FALSE, orphan |-> FALSE,
     disturbed |-> FALSE, attempts |-> 0, elections |-> 0,
     exc |-> None, value |-> None, key |-> None]

\* a start() that binds the address whether or not a server listens at it
manager_start_unchecked(servers) == TRUE

\* SyncManager.start() of a new CacheServer: the server process binds the
\* address, which the system allows while no other server listens at it
manager_start(servers) == \A n \in Nodes : ~servers[n].listening

\* a new server that takes over the mapping of the Host that failed
create_server_restoring(E) == [listening |-> TRUE, cache |-> E.lost]

\* create_server: CacheServer.__init__ sets self.cache = {} and starts the
\* manager that serves it
create_server(E) == [listening |-> TRUE, cache |-> EmptyDict]

\* a __setitem__ that leaves the cache of the server as it was
cache_setitem_dropped(C, key, value) == Out(C, None, None)

\* a __getitem__ that answers None for a key the cache does not hold
cache_getitem_default(C, key) ==
    IF key \in DOMAIN C THEN Out(C, None, C[key]) ELSE Out(C, None, None)

\* the callables a CacheServer registers, run by the server on its cache
cache_getitem(C, key) ==
    IF key \in DOMAIN C THEN Out(C, None, C[key]) ELSE Out(C, "RemoteError", None)
cache_setitem(C, key, value) == Out(Put(C, key, value), None, None)
cache_delitem(C, key) ==
    IF key \in DOMAIN C THEN Out(Del(C, key), None, None)
    ELSE Out(C, "RemoteError", None)
cache_contains(C, key) ==
    Out(C, None, IF key \in DOMAIN C THEN "True" ELSE "False")
cache_str(C) ==
    Out(C, None, IF "ba" \in DOMAIN C THEN "{'ba': '" \o C["ba"] \o "'}" ELSE "{}")

\* function(self, *args) of remote_call_wrapper, answered by a server whose
\* cache is C
remote_call(C, op) ==
    CASE op.kind = "get" -> cache_getitem(C, op.key)
      [] op.kind = "set" -> cache_setitem(C, op.key, op.value)
      [] op.kind = "delete" -> cache_delitem(C, op.key)
      [] op.kind = "contains" -> cache_contains(C, op.key)
      [] OTHER -> cache_str(C)

\* ------------------------------------------------------------------ actions

Init0 ==
    /\ sort_kwargs \in BOOLEAN
    /\ results_cache = EmptyDict
    /\ cache_queue = <<>>
    /\ hits_total = 0
    /\ misses_total = 0
    /\ hits_by_func = EmptyDict
    /\ misses_by_func = EmptyDict
    /\ called_count = [fn \in Functions |-> 0]
    /\ hist = [lookups |-> 0, returned |-> 0, recency |-> <<>>,
               hit |-> FALSE, evictions |-> <<>>, stored |-> 0, removed |-> FALSE,
               fired |-> <<>>]
    /\ last = [op |-> "init", kind |-> None, hit |-> FALSE, exc |-> None]

\* no RemoteCacheWrapper exists
InitNodes ==
    /\ node = [n \in Nodes |-> Absent]
    /\ cache_server = [n \in Nodes |-> NoServer]
    /\ env = [kills |-> 0, overlap |-> FALSE,
              written |-> [key \in RemoteKeys |-> [value |-> None, by |-> None]],
              kept |-> [key \in RemoteKeys |-> None],
              hung |-> FALSE, hangs |-> 0, lost |-> EmptyDict]

\* the state after an operation that ended in r
Becomes(r) ==
    /\ r.st.called_count["f"] + r.st.called_count["g"] <= MaxCalls
    /\ r.st.hist.lookups <= MaxLookups
    /\ results_cache' = r.st.results_cache
    /\ cache_queue' = r.st.cache_queue
    /\ hits_total' = r.st.hits_total
    /\ misses_total' = r.st.misses_total
    /\ hits_by_func' = r.st.hits_by_func
    /\ misses_by_func' = r.st.misses_by_func
    /\ called_count' = r.st.called_count
    /\ hist' = IF cls = "LRUCache" THEN Settle(r.st).hist ELSE r.st.hist
    /\ UNCHANGED <<cls, sort_kwargs, max_cache_size, node, cache_server, env>>

\* a call of the memoized wrapper of fn
Call(fn, a) ==
    LET r == memoized(Self, fn, a)
    IN /\ Becomes(r)
       /\ last' = [op |-> "call", kind |-> None, a |-> a,
                   hit |-> Cached(results_cache, Ref(fn, FALSE), process_params(a)),
                   exc |-> r.exc]

\* memoizer.get_result(function, *args, **kwargs)
GetResult(function, a) ==
    LET r == get_result(Self, function, a)
    IN /\ Becomes(r)
       /\ last' = [op |-> "get_result", kind |-> None, a |-> a,
                   hit |-> Cached(results_cache, function, process_params(a)),
                   exc |-> r.exc]

\* memoizer.remove_from_cache(function, params)
RemoveFromCache(function, params) ==
    LET r == remove_from_cache(
                 [Self EXCEPT !.hist.hit = FALSE,
                              !.hist.removed = IF cls = "LRUCache" THEN TRUE ELSE @,
                              !.hist.stored = 0],
                 function, params)
    IN /\ Becomes(r)
       /\ last' = [op |-> "remove", kind |-> params.kind,
                   hit |-> r.st.results_cache # results_cache, exc |-> r.exc]

NextLocal ==
    \/ \E fn \in Memoized : \E a \in ArgsOf(fn) : Call(fn, a)
    \/ \E function \in Refs : \E a \in ArgsOf(function.name) : GetResult(function, a)
    \/ \E function \in Refs : \E params \in ParamsOf(function.name) :
           RemoveFromCache(function, params)

InitMemoizer == Init0 /\ InitNodes /\ cls = "Memoizer" /\ max_cache_size = 0
InitTracking == Init0 /\ InitNodes /\ cls = "TrackingMemoizer" /\ max_cache_size = 0
InitLRU == Init0 /\ InitNodes /\ sort_kwargs /\ cls = "LRUCache" /\ max_cache_size \in 1..MaxCapacity

SpecMemoizer == InitMemoizer /\ [][NextLocal]_vars
SpecTracking == InitTracking /\ [][NextLocal]_vars
SpecLRU == InitLRU /\ [][NextLocal]_vars

\* ------------------------------------------------------ actions of the nodes

Local ==
    UNCHANGED <<cls, sort_kwargs, max_cache_size, results_cache, cache_queue,
                hits_total, misses_total, hits_by_func, misses_by_func,
                called_count, hist, last>>

InConstructor(n) == node[n].pc = "init_create"
InCall(n) == node[n].pc \in {"re_connect", "re_create", "retry"}

\* the node left its remote call: what the call returned or raised
Ended(nd, e, v) == [nd EXCEPT !.pc = "done", !.exc = e, !.value = v]

\* history: the value that the latest set of each key wrote and the node that
\* set it, until the key is deleted or the Host is killed
NoWrite == [value |-> None, by |-> None]
Note(written, op, n) ==
    IF op.kind = "set"
    THEN [written EXCEPT ![op.key] = [value |-> op.value, by |-> n]]
    ELSE IF op.kind = "delete" THEN [written EXCEPT ![op.key] = NoWrite]
    ELSE written

\* history: the value of the latest set of each key that no set or delete of
\* the key followed, whatever became of the Host
Keep_value(kept, op) ==
    IF op.kind = "set" THEN [kept EXCEPT ![op.key] = op.value]
    ELSE IF op.kind = "delete" THEN [kept EXCEPT ![op.key] = None]
    ELSE kept

\* the server that listens at the address answers op
Answer(n, op, nd) ==
    \E h \in Hosts :
        LET r == remote_call(cache_server[h].cache, op)
        IN /\ cache_server' = [cache_server EXCEPT ![h].cache = r.st]
           /\ node' = [node EXCEPT ![n] = Ended(nd, r.exc, r.value)]
           /\ env' = [env EXCEPT !.written = Note(@, op, n),
                                 !.kept = Keep_value(@, op)]

\* RemoteCacheWrapper(...) in process n, up to the end of its first _connect:
\* a refused connection leads to create_server
Start(n) ==
    /\ node[n].pc = "absent"
    /\ node' = [node EXCEPT ![n].pc = IF Hosts = {} THEN "init_create"
                                      ELSE IF env.hung THEN "waiting" ELSE "idle"]
    /\ env' = [env EXCEPT !.overlap = @ \/ \E m \in Nodes : InConstructor(m)]
    /\ UNCHANGED cache_server
    /\ Local

\* create_server and the _connect after it, in the constructor or in a remote
\* call: CacheServer registers its callables and starts its manager; a start
\* that cannot bind the address raises EOFError, which nothing catches; the
\* node's own server then accepts the connection
CreateServer(n) ==
    /\ node[n].pc \in {"init_create", "re_create"}
    /\ IF manager_start(cache_server)
       THEN /\ cache_server' = [cache_server EXCEPT ![n] = create_server(env)]
            /\ node' = [node EXCEPT
                           ![n].registered = TRUE,
                           ![n].pc = IF @ = "init_create" THEN "idle" ELSE "retry"]
       ELSE /\ UNCHANGED cache_server
            /\ node' = [node EXCEPT
                           ![n] = IF @.pc = "init_create"
                                  THEN [@ EXCEPT !.pc = "failed", !.registered = TRUE,
                                                 !.exc = "EOFError"]
                                  ELSE Ended([@ EXCEPT !.registered = TRUE],
                                             "EOFError", None)]
    /\ UNCHANGED env
    /\ Local

\* remote_call_wrapper up to the end of its first function(self, *args):
\* __str__ of a manager class on which no CacheServer registered '__str__'
\* gives a str, which has no _getvalue; a refused connection leads to
\* _connect_or_establish_manager
Call_remote(n, op) ==
    /\ node[n].pc = "idle"
    /\ LET nd == [node[n] EXCEPT !.op = preprocess(n, op), !.key = op.key,
                                 !.attempts = 1, !.orphan = (Hosts = {})]
       IN IF op.kind = "str" /\ ~node[n].registered
          THEN /\ node' = [node EXCEPT ![n] = Ended(nd, "AttributeError", None)]
               /\ UNCHANGED <<cache_server, env>>
          ELSE IF Hosts # {} /\ env.hung
          THEN /\ node' = [node EXCEPT ![n] = [nd EXCEPT !.pc = "waiting"]]
               /\ UNCHANGED <<cache_server, env>>
          ELSE IF Hosts # {}
          THEN Answer(n, nd.op, nd)
          ELSE /\ node' = [node EXCEPT ![n] = [nd EXCEPT !.pc = "re_connect",
                                                         !.elections = 1]]
               /\ UNCHANGED <<cache_server, env>>
    /\ Local

\* the _connect that _connect_or_establish_manager begins with, in a remote
\* call
Reconnect(n) ==
    /\ node[n].pc = "re_connect"
    /\ node' = [node EXCEPT ![n].pc = IF Hosts = {} THEN "re_create"
                                      ELSE IF env.hung THEN "waiting" ELSE "retry"]
    /\ UNCHANGED <<cache_server, env>>
    /\ Local

\* a remote_call_wrapper that runs the election again when its second
\* function(self, *args) is refused
retry_refused_again(nd) == [nd EXCEPT !.pc = "re_connect", !.elections = @ + 1]

\* the second function(self, *args) stands outside the try: its
\* ConnectionRefusedError leaves remote_call_wrapper
retry_refused(nd) == Ended(nd, "ConnectionRefusedError", None)

\* the second function(self, *args) of remote_call_wrapper, outside the try
Retry(n) ==
    /\ node[n].pc = "retry"
    /\ LET nd == [node[n] EXCEPT !.attempts = 2]
       IN IF Hosts # {} /\ env.hung
          THEN /\ node' = [node EXCEPT ![n] = [nd EXCEPT !.pc = "waiting"]]
               /\ UNCHANGED <<cache_server, env>>
          ELSE IF Hosts # {}
          THEN Answer(n, retry_args(n, node[n].op), nd)
          ELSE /\ node' = [node EXCEPT ![n] = retry_refused(nd)]
               /\ UNCHANGED <<cache_server, env>>
    /\ Local

\* the caller has the result of its remote call
Return(n) ==
    /\ node[n].pc = "done"
    /\ node' = [node EXCEPT ![n] = [Absent EXCEPT !.pc = "idle",
                                                 !.registered = node[n].registered]]
    /\ UNCHANGED <<cache_server, env>>
    /\ Local

\* a node that treats the reset of its connection as a refusal and runs the
\* election
connection_reset_elects(nd) ==
    IF nd.attempts = 0 THEN [nd EXCEPT !.pc = "init_create"]
    ELSE [nd EXCEPT !.pc = "re_connect", !.elections = @ + 1]

\* the server a node waits for goes away: the pending connect or call raises
\* ConnectionResetError, which is not a ConnectionRefusedError and leaves the
\* constructor or the remote call
connection_reset(nd) ==
    IF nd.attempts = 0
    THEN [nd EXCEPT !.pc = "failed", !.exc = "ConnectionResetError"]
    ELSE Ended([nd EXCEPT !.disturbed = TRUE], "ConnectionResetError", None)

\* the server process of the Host stops answering while it keeps the address
\* bound
Hang(n) ==
    /\ n \in Hosts
    /\ ~env.hung
    /\ env.hangs < MaxHangs
    /\ env' = [env EXCEPT !.hung = TRUE, !.hangs = @ + 1]
    /\ UNCHANGED <<node, cache_server>>
    /\ Local

\* the Host goes away with its server and the server's cache; the remote
\* calls in progress on the other nodes see it
Kill(n) ==
    /\ n \in Hosts
    /\ env.kills < MaxKills
    /\ env' = [env EXCEPT !.kills = @ + 1, !.hung = FALSE,
                          !.written = [key \in RemoteKeys |-> NoWrite]]
    /\ cache_server' = [cache_server EXCEPT ![n] = NoServer]
    /\ node' = [m \in Nodes |->
                   IF m = n THEN [Absent EXCEPT !.pc = "dead"]
                   ELSE IF node[m].pc = "waiting" THEN connection_reset(node[m])
                   ELSE IF InCall(m) \/ node[m].pc = "done"
                   THEN [node[m] EXCEPT !.disturbed = TRUE]
                   ELSE node[m]]
    /\ Local

NextRemote ==
    \/ \E n \in Nodes : Start(n)
    \/ \E n \in Nodes : CreateServer(n)
    \/ \E n \in Nodes : \E op \in RemoteOps(n) : Call_remote(n, op)
    \/ \E n \in Nodes : Reconnect(n)
    \/ \E n \in Nodes : Retry(n)
    \/ \E n \in Nodes : Return(n)
    \/ \E n \in Nodes : Kill(n)
    \/ \E n \in Nodes : Hang(n)

InitRemote ==
    /\ Init0 /\ InitNodes
    /\ sort_kwargs /\ cls = "RemoteCacheWrapper" /\ max_cache_size = 0

SpecRemote == InitRemote /\ [][NextRemote]_vars

\* ------------------------------------------------------------ SharedMemoizer

\* serialize_function: module and qualified name, which functools.wraps
\* copies from the original to the wrapper
serialize_function(function) == "tests." \o function.name

\* the item operations of the RemoteCacheWrapper that is results_cache, with
\* serialize_function as key_preprocessor, answered by a server whose cache
\* is C at the first attempt
getitem(C, function) == cache_getitem(C, serialize_function(function))
setitem(C, function, value) == cache_setitem(C, serialize_function(function), value)
delitem(C, function) == cache_delitem(C, serialize_function(function))
contains(C, function) == cache_contains(C, serialize_function(function)).value = "True"

TheHost == CHOOSE h \in Hosts : TRUE

\* the SharedMemoizer as its methods see it: the cache of the Host, and the
\* invocations of the user functions; with nobody listening the first remote
\* call of the method is refused and the calling node creates the server that
\* answers the retry
SelfShared ==
    [cache |-> IF Hosts = {} THEN create_server(env).cache
               ELSE cache_server[TheHost].cache,
     called_count |-> called_count]

SharedCached(C, function, params) ==
    /\ serialize_function(function) \in DOMAIN C
    /\ params \in DOMAIN C[serialize_function(function)]

RECURSIVE shared_get_result(_, _, _)

\* the wrapper memoized() returns, on a SharedMemoizer
shared_memoized(S, fn, a) ==
    LET r == shared_get_result(S, Ref(fn, FALSE), a)
    IN IF r.exc = None THEN r ELSE call_function(r.st, fn, a)

shared_Invoke(S, function, a) ==
    IF function.wrapper THEN shared_memoized(S, function.name, a)
    ELSE call_function(S, function.name, a)

\* SharedMemoizer._call_and_add_result: the function's store is read, changed
\* locally and written back
shared_call_and_add_result(S, function, a) ==
    LET r == shared_Invoke(S, function, a)
        params == process_params(a)
    IN IF r.exc # None THEN r
       ELSE LET new_cache == getitem(r.st.cache, function)
            IN IF new_cache.exc # None THEN Out(r.st, new_cache.exc, NoValue)
               ELSE Out([r.st EXCEPT !.cache =
                            setitem(@, function,
                                    Put(new_cache.value, params, r.value)).st],
                        None, NoValue)

\* Memoizer.get_result on a SharedMemoizer; handle_cache_decay is the
\* placeholder of Memoizer
shared_get_result(S, function, a) ==
    LET S1 == IF contains(S.cache, function) THEN S
              ELSE [S EXCEPT !.cache = setitem(@, function, EmptyDict).st]
        params == process_params(a)
        store == getitem(S1.cache, function)
    IN IF store.exc # None THEN Out(S1, store.exc, NoValue)
       ELSE
       LET r == IF params \in DOMAIN store.value THEN Out(S1, None, NoValue)
                ELSE shared_call_and_add_result(S1, function, a)
       IN IF r.exc # None THEN r
          ELSE LET final == getitem(r.st.cache, function)
               IN IF final.exc # None THEN Out(r.st, final.exc, NoValue)
                  ELSE IF params \notin DOMAIN final.value
                  THEN Out(r.st, "KeyError", NoValue)
                  ELSE Out(r.st, None, final.value[params])

\* x in self.results_cache and params in self.results_cache[x]
shared_has(S, x, params) ==
    contains(S.cache, x) /\ params \in DOMAIN getitem(S.cache, x).value

\* a removal that changes the local copy and does not write it back
shared_delete_local_copy(S, x, params) == S

\* local = self.results_cache[x]; del local[params]; self.results_cache[x] = local
shared_delete_entry(S, x, params) ==
    [S EXCEPT !.cache = setitem(@, x, Del(getitem(@, x).value, params)).st]

\* SharedMemoizer.remove_from_cache(function, *args, **kwargs);
\* serialize_function(None) raises AttributeError
shared_remove_from_cache(S, function, a) ==
    LET w == wrapped_func(function)
        params == process_params(a)
    IN IF a # NoArgs
       THEN IF shared_has(S, function, params)
            THEN Out(shared_delete_entry(S, function, params), None, NoValue)
            ELSE IF w = NoRef THEN Out(S, "AttributeError", NoValue)
            ELSE IF shared_has(S, w, params)
            THEN Out(shared_delete_entry(S, w, params), None, NoValue)
            ELSE Out(S, "KeyError", NoValue)
       ELSE IF contains(S.cache, function)
            THEN Out([S EXCEPT !.cache = delitem(@, function).st], None, NoValue)
            ELSE IF w = NoRef THEN Out(S, "AttributeError", NoValue)
            ELSE IF contains(S.cache, w)
            THEN Out([S EXCEPT !.cache = delitem(@, w).st], None, NoValue)
            ELSE Out(S, "KeyError", NoValue)

\* the state after an operation of a SharedMemoizer that ended in r
SharedBecomes(n, r) ==
    /\ r.st.called_count["f"] + r.st.called_count["g"] <= MaxCalls
    /\ cache_server' =
           IF Hosts = {}
           THEN [cache_server EXCEPT ![n] = [create_server(env) EXCEPT !.cache = r.st.cache]]
           ELSE [cache_server EXCEPT ![TheHost].cache = r.st.cache]
    /\ node' = [node EXCEPT ![n].registered = @ \/ Hosts = {}]
    /\ called_count' = r.st.called_count
    /\ UNCHANGED <<cls, sort_kwargs, max_cache_size, results_cache, cache_queue,
                   hits_total, misses_total, hits_by_func, misses_by_func,
                   hist, env>>

\* a call of the memoized wrapper of fn on node n
SharedCall(n, fn, a) ==
    /\ node[n].pc = "idle"
    /\ LET r == shared_memoized(SelfShared, fn, a)
       IN /\ SharedBecomes(n, r)
          /\ last' = [op |-> "call", kind |-> None, by |-> n,
                      hit |-> SharedCached(SelfShared.cache, Ref(fn, FALSE),
                                           process_params(a)),
                      exc |-> r.exc]

\* memoizer.get_result(function, *args, **kwargs) on node n
SharedGetResult(n, function, a) ==
    /\ node[n].pc = "idle"
    /\ LET r == shared_get_result(SelfShared, function, a)
       IN /\ SharedBecomes(n, r)
          /\ last' = [op |-> "get_result", kind |-> None, by |-> n,
                      hit |-> SharedCached(SelfShared.cache, function,
                                           process_params(a)),
                      exc |-> r.exc]

\* memoizer.remove_from_cache(function, *args, **kwargs) on node n
SharedRemoveFromCache(n, function, a) ==
    /\ node[n].pc = "idle"
    /\ LET r == shared_remove_from_cache(SelfShared, function, a)
       IN /\ SharedBecomes(n, r)
          /\ last' = [op |-> "remove", kind |-> IF a = NoArgs THEN None ELSE "args",
                      by |-> n,
                      hit |-> r.st.cache # SelfShared.cache, exc |-> r.exc]

SharedLocal ==
    UNCHANGED <<cls, sort_kwargs, max_cache_size, results_cache, cache_queue,
                hits_total, misses_total, hits_by_func, misses_by_func,
                called_count, hist>>

\* SharedMemoizer() in process n: the RemoteCacheWrapper connects to the Host,
\* or creates the server when the connection is refused
SharedStart(n) ==
    /\ node[n].pc = "absent"
    /\ node' = [node EXCEPT ![n].pc = "idle", ![n].registered = (Hosts = {})]
    /\ cache_server' = IF Hosts = {} THEN [cache_server EXCEPT ![n] = create_server(env)]
                       ELSE cache_server
    /\ last' = [op |-> "start", kind |-> None, by |-> n, hit |-> FALSE, exc |-> None]
    /\ UNCHANGED env
    /\ SharedLocal

\* the Host goes away with its server and the server's cache
SharedKill(n) ==
    /\ n \in Hosts
    /\ env.kills < MaxKills
    /\ env' = [env EXCEPT !.kills = @ + 1, !.lost = cache_server[n].cache]
    /\ cache_server' = [cache_server EXCEPT ![n] = NoServer]
    /\ node' = [node EXCEPT ![n] = [Absent EXCEPT !.pc = "dead"]]
    /\ last' = [op |-> "kill", kind |-> None, by |-> n, hit |-> FALSE, exc |-> None]
    /\ SharedLocal

NextShared ==
    \/ \E n \in Nodes : \E fn \in Memoized : \E a \in ArgsOf(fn) : SharedCall(n, fn, a)
    \/ \E n \in Nodes : \E function \in Refs : \E a \in ArgsOf(function.name) :
           SharedGetResult(n, function, a)
    \/ \E n \in Nodes : \E function \in Refs :
           \E a \in ArgsOf(function.name) \cup {NoArgs} :
               SharedRemoveFromCache(n, function, a)
    \/ \E n \in Nodes : SharedStart(n)
    \/ \E n \in Nodes : SharedKill(n)

\* SharedMemoizer() was called in n1, which became the Host, and then in n2
InitShared ==
    /\ Init0
    /\ cls = "SharedMemoizer" /\ max_cache_size = 0
    /\ node = [n \in Nodes |->
                  IF n = "n1" THEN [Absent EXCEPT !.pc = "idle", !.registered = TRUE]
                  ELSE IF n = "n2" THEN [Absent EXCEPT !.pc = "idle"]
                  ELSE Absent]
    /\ cache_server = [n \in Nodes |->
                          IF n = "n1" THEN [listening |-> TRUE, cache |-> EmptyDict]
                          ELSE NoServer]
    /\ env = [kills |-> 0, overlap |-> FALSE,
              written |-> [key \in RemoteKeys |-> [value |-> None, by |-> None]],
              kept |-> [key \in RemoteKeys |-> None],
              hung |-> FALSE, hangs |-> 0, lost |-> EmptyDict]

SpecShared == InitShared /\ [][NextShared]_vars

\* ------------------------- SharedMemoizer.get_result, one remote call a step

\* the locals of a get_result in progress on a node
Frame(function, a) ==
    [function |-> function, a |-> a, params |-> process_params(a),
     new_cache |-> EmptyDict, wrote |-> FALSE, call |-> "get_result"]

StepLocal ==
    UNCHANGED <<cls, sort_kwargs, max_cache_size, results_cache, cache_queue,
                hits_total, misses_total, hits_by_func, misses_by_func, hist, env>>

\* a write-back that adds the entries of new_cache to the store on the Host
write_back_merged(C, function, new_cache) ==
    LET old == IF contains(C, function) THEN getitem(C, function).value ELSE EmptyDict
    IN setitem(C, function,
               [x \in (DOMAIN old) \cup (DOMAIN new_cache) |->
                    IF x \in DOMAIN new_cache THEN new_cache[x] ELSE old[x]]).st

\* self.results_cache[function] = new_cache: one remote set of the whole store
write_back(C, function, new_cache) == setitem(C, function, new_cache).st

\* get_result(function, *a) begins on node n: function not in self.results_cache
ContainsStep(n, function, a) ==
    /\ node[n].pc = "idle"
    /\ called_count["f"] + called_count["g"] <= MaxCalls
    /\ node' = [node EXCEPT
                   ![n].op = Frame(function, a),
                   ![n].exc = None,
                   ![n].value = None,
                   ![n].pc = IF contains(cache_server[TheHost].cache, function)
                             THEN "lookup" ELSE "init_store"]
    /\ UNCHANGED <<cache_server, called_count, last>>
    /\ StepLocal

\* self.results_cache[function] = {}
InitStoreStep(n) ==
    /\ node[n].pc = "init_store"
    /\ cache_server' = [cache_server EXCEPT
                           ![TheHost].cache = write_back(@, node[n].op.function, EmptyDict)]
    /\ node' = [node EXCEPT ![n].pc = "lookup"]
    /\ UNCHANGED <<called_count, last>>
    /\ StepLocal

\* params not in self.results_cache[function]
LookupStep(n) ==
    /\ node[n].pc = "lookup"
    /\ LET store == getitem(cache_server[TheHost].cache, node[n].op.function)
       IN node' = [node EXCEPT
                      ![n] = IF store.exc # None THEN [@ EXCEPT !.pc = "idle", !.exc = store.exc]
                             ELSE IF node[n].op.params \in DOMAIN store.value
                             THEN [@ EXCEPT !.pc = "return"]
                             ELSE [@ EXCEPT !.pc = "add_result"]]
    /\ UNCHANGED <<cache_server, called_count, last>>
    /\ StepLocal

\* _call_and_add_result up to new_cache[params] = result: the function is
\* called and the store is read from the Host
AddResultStep(n) ==
    /\ node[n].pc = "add_result"
    /\ LET f == node[n].op
           r == call_function([called_count |-> called_count], f.function.name, f.a)
           new_cache == getitem(cache_server[TheHost].cache, f.function)
       IN /\ called_count' = r.st.called_count
          /\ node' = [node EXCEPT
                         ![n] = IF r.exc # None THEN [@ EXCEPT !.pc = "idle", !.exc = r.exc]
                                ELSE IF new_cache.exc # None
                                THEN [@ EXCEPT !.pc = "idle", !.exc = new_cache.exc]
                                ELSE [@ EXCEPT !.pc = "write_back",
                                               !.op.new_cache =
                                                   Put(new_cache.value, f.params, r.value)]]
    /\ UNCHANGED <<cache_server, last>>
    /\ StepLocal

\* the last line of _call_and_add_result
WriteBackStep(n) ==
    /\ node[n].pc = "write_back"
    /\ cache_server' = [cache_server EXCEPT
                           ![TheHost].cache =
                               write_back(@, node[n].op.function, node[n].op.new_cache)]
    /\ node' = [node EXCEPT ![n].pc = "return", ![n].op.wrote = TRUE]
    /\ last' = [op |-> "write_back", kind |-> n, hit |-> FALSE, exc |-> None,
                function |-> node[n].op.function, new_cache |-> node[n].op.new_cache]
    /\ UNCHANGED called_count
    /\ StepLocal

\* return self.results_cache[function][params]
ReturnStep(n) ==
    /\ node[n].pc = "return"
    /\ LET final == getitem(cache_server[TheHost].cache, node[n].op.function)
       IN node' = [node EXCEPT
                      ![n] = IF final.exc # None THEN [@ EXCEPT !.pc = "idle", !.exc = final.exc]
                             ELSE IF node[n].op.params \notin DOMAIN final.value
                             THEN [@ EXCEPT !.pc = "idle", !.exc = "KeyError"]
                             ELSE [@ EXCEPT !.pc = "idle",
                                            !.value = final.value[node[n].op.params]]]
    /\ UNCHANGED <<cache_server, called_count, last>>
    /\ StepLocal

\* SharedMemoizer.remove_from_cache(function, *a) begins on node n:
\* function in self.results_cache; a function that wraps nothing and is not
\* found has serialize_function read None.__module__
RemoveContainsStep(n, function, a) ==
    /\ node[n].pc = "idle"
    /\ node' = [node EXCEPT
                   ![n].op = [Frame(function, a) EXCEPT !.call = "remove_from_cache"],
                   ![n].value = None,
                   ![n].exc = IF contains(cache_server[TheHost].cache, function)
                              THEN None ELSE "AttributeError",
                   ![n].pc = IF ~contains(cache_server[TheHost].cache, function)
                             THEN "idle"
                             ELSE IF a = NoArgs THEN "remove_del" ELSE "remove_lookup"]
    /\ UNCHANGED <<cache_server, called_count, last>>
    /\ StepLocal

\* del self.results_cache[function]
RemoveDelStep(n) ==
    /\ node[n].pc = "remove_del"
    /\ LET r == delitem(cache_server[TheHost].cache, node[n].op.function)
       IN /\ cache_server' = [cache_server EXCEPT ![TheHost].cache = r.st]
          /\ node' = [node EXCEPT ![n].pc = "idle", ![n].exc = r.exc]
          /\ last' = [op |-> "remove", kind |-> n, hit |-> r.exc = None, exc |-> r.exc]
    /\ UNCHANGED called_count
    /\ StepLocal

\* params in self.results_cache[function]
RemoveLookupStep(n) ==
    /\ node[n].pc = "remove_lookup"
    /\ LET store == getitem(cache_server[TheHost].cache, node[n].op.function)
       IN node' = [node EXCEPT
                      ![n] = IF store.exc # None THEN [@ EXCEPT !.pc = "idle", !.exc = store.exc]
                             ELSE IF node[n].op.params \in DOMAIN store.value
                             THEN [@ EXCEPT !.pc = "remove_read"]
                             ELSE [@ EXCEPT !.pc = "idle", !.exc = "AttributeError"]]
    /\ UNCHANGED <<cache_server, called_count, last>>
    /\ StepLocal

\* local = self.results_cache[function]; del local[params]
RemoveReadStep(n) ==
    /\ node[n].pc = "remove_read"
    /\ LET local == getitem(cache_server[TheHost].cache, node[n].op.function)
       IN node' = [node EXCEPT
                      ![n] = IF local.exc # None THEN [@ EXCEPT !.pc = "idle", !.exc = local.exc]
                             ELSE IF node[n].op.params \notin DOMAIN local.value
                             THEN [@ EXCEPT !.pc = "idle", !.exc = "KeyError"]
                             ELSE [@ EXCEPT !.pc = "remove_write",
                                            !.op.new_cache =
                                                Del(local.value, node[n].op.params)]]
    /\ UNCHANGED <<cache_server, called_count, last>>
    /\ StepLocal

\* self.results_cache[function] = local
RemoveWriteStep(n) ==
    /\ node[n].pc = "remove_write"
    /\ cache_server' = [cache_server EXCEPT
                           ![TheHost].cache =
                               write_back(@, node[n].op.function, node[n].op.new_cache)]
    /\ node' = [node EXCEPT ![n].pc = "idle"]
    /\ last' = [op |-> "remove", kind |-> n, hit |-> TRUE, exc |-> None]
    /\ UNCHANGED called_count
    /\ StepLocal

NextSharedSteps ==
    \/ \E n \in Nodes : \E a \in Positional : ContainsStep(n, Ref("f", FALSE), a)
    \/ \E n \in Nodes : \E a \in Positional \cup {NoArgs} :
           RemoveContainsStep(n, Ref("f", FALSE), a)
    \/ \E n \in Nodes : RemoveDelStep(n)
    \/ \E n \in Nodes : RemoveLookupStep(n)
    \/ \E n \in Nodes : RemoveReadStep(n)
    \/ \E n \in Nodes : RemoveWriteStep(n)
    \/ \E n \in Nodes : InitStoreStep(n)
    \/ \E n \in Nodes : LookupStep(n)
    \/ \E n \in Nodes : AddResultStep(n)
    \/ \E n \in Nodes : WriteBackStep(n)
    \/ \E n \in Nodes : ReturnStep(n)

SpecSharedSteps == InitShared /\ [][NextSharedSteps]_vars

\* ------------------------------------------------------------------ claims

RefsOf(fn) == {function \in Refs : function.name = fn}

RECURSIVE SumOver(_, _)
SumOver(d, set) ==
    IF set = {} THEN 0
    ELSE LET x == CHOOSE x \in set : TRUE
         IN d[x] + SumOver(d, set \ {x})

\* sum(d.values())
SumValues(d) == SumOver(d, DOMAIN d)

Min(x, y) == IF x <= y THEN x ELSE y

\* C1: on a base Memoizer, for a user function f that returns and any
\* argument set a that has a key, a wrapped call and get_result(f, a) invoke f once when
\* (f, a) is not cached, storing what f returned, and return the stored
\* result without invoking f when it is cached; a stored result is always
\* one f returned for arguments with that key.
C1_MemoizationIdempotence ==
    /\ \A pr \in Pairs(results_cache) :
           LET v == results_cache[pr[1]][pr[2]]
           IN v.fn = pr[1].name /\ process_params(v.a) = pr[2]
    /\ \A fn \in Functions : \A a \in ArgsOf(fn) :
           (Picklable(a) /\ ~Raises(fn, a) /\ ~RaisesOnce(Self, fn, a)) =>
               LET function == Ref(fn, FALSE)
                   params == process_params(a)
                   looked == get_result(Self, function, a)
                   called == IF fn \in Memoized THEN memoized(Self, fn, a) ELSE looked
               IN \A r \in {looked, called} :
                      /\ r.exc = None
                      /\ IF Cached(results_cache, function, params)
                         THEN /\ r.value = results_cache[function][params]
                              /\ r.st.called_count = called_count
                         ELSE /\ r.st.called_count = [called_count EXCEPT ![fn] = @ + 1]
                              /\ Cached(r.st.results_cache, function, params)
                              /\ r.st.results_cache[function][params] = r.value
                              /\ r.value.t = called_count[fn] + 1

\* a wrapped call of f found the entry the one invocation of f had stored
C1_Witness ==
    /\ cls = "Memoizer"
    /\ last.op = "call" /\ last.hit /\ last.exc = None
    /\ called_count["f"] = 1

\* C2: the wrapper and the original function share one cache partition: once
\* (f, a) is cached through either reference, a lookup through the other
\* reference returns the stored result, does not invoke f and creates no
\* second entry.
C2_SharedPartition ==
    \A fn \in Memoized : \A a \in ArgsOf(fn) : \A function \in RefsOf(fn) :
        Cached(results_cache, function, process_params(a)) =>
            \A other \in RefsOf(fn) :
                LET r == get_result(Self, other, a)
                IN /\ r.exc = None
                   /\ r.value = results_cache[function][process_params(a)]
                   /\ r.st.called_count = called_count
                   /\ Pairs(r.st.results_cache) = Pairs(results_cache)

\* C3: with a and b cached for f, remove_from_cache(wrapper, a), a being the
\* bare argument as the test passes it, makes the next call f(a) invoke f
\* again and leaves f(b) returning its stored result.
C3_LocalRemoval ==
    \A fn \in Memoized : \A a \in Positional : \A b \in Positional \ {a} :
        LET function == Ref(fn, FALSE)
        IN (/\ Cached(results_cache, function, process_params(a))
            /\ Cached(results_cache, function, process_params(b))) =>
               LET rm == remove_from_cache(Self, Ref(fn, TRUE), Param("raw", a))
                   ra == memoized(rm.st, fn, a)
                   rb == memoized(rm.st, fn, b)
               IN /\ rm.exc = None
                  /\ ra.st.called_count[fn] = called_count[fn] + 1
                  /\ rb.st.called_count = called_count
                  /\ rb.value = results_cache[function][process_params(b)]

\* with a and b cached for fn on the Host, remove_from_cache(function, a) on a
\* SharedMemoizer makes the next call with a invoke fn again, keeps the entry
\* of b on the Host, and the next call with b returns it without invoking fn
SharedRemovalCorrect(function, a, b) ==
    LET fn == function.name
        original == Ref(fn, FALSE)
        S == SelfShared
    IN (/\ SharedCached(S.cache, original, process_params(a))
        /\ SharedCached(S.cache, original, process_params(b))) =>
           LET rm == shared_remove_from_cache(S, function, a)
               ra == shared_memoized(rm.st, fn, a)
               rb == shared_memoized(rm.st, fn, b)
           IN /\ rm.exc = None
              /\ ra.exc = None
              /\ ra.st.called_count[fn] = called_count[fn] + 1
              /\ SharedCached(rm.st.cache, original, process_params(b))
              /\ rb.st.called_count = called_count
              /\ rb.value = getitem(S.cache, original).value[process_params(b)]

\* C4 as amended: on a SharedMemoizer in sequential use, with a and b (b # a)
\* cached for f and a not the empty argument set, remove_from_cache(f, a)
\* through the wrapper or the original makes the next call with a invoke f
\* again, while the entry of b stays on the Host and the next call with b
\* does not invoke f.
C4_SharedRemoval ==
    \A function \in RefsOf("f") :
        \A a \in ArgsOf("f") \ {NoArgs} : \A b \in ArgsOf("f") \ {a} :
            SharedRemovalCorrect(function, a, b)

\* C4 as stated: the same for every argument set a, the empty one included.
C4_AsStated ==
    \A function \in RefsOf("f") :
        \A a \in ArgsOf("f") : \A b \in ArgsOf("f") \ {a} :
            SharedRemovalCorrect(function, a, b)

\* remove_from_cache(f, a) took one entry of f from the Host and left another
C4_Witness ==
    /\ cls = "SharedMemoizer"
    /\ last.op = "remove" /\ last.kind = "args" /\ last.hit /\ last.exc = None
    /\ \E a \in ArgsOf("f") :
           SharedCached(SelfShared.cache, Ref("f", FALSE), process_params(a))

\* C5: remove_from_cache(f) with no arguments deletes the whole store of f,
\* so that every argument set of f is looked up as a miss and recomputed by
\* its next call, and leaves the stores of the other functions as they were.
C5_WholeStoreRemoval ==
    \A function \in Refs :
        LET rm == remove_from_cache(Self, function, NoParams)
            fn == function.name
        IN /\ rm.exc = None
           /\ \A other \in RefsOf(fn) : \A a \in ArgsOf(fn) :
                  ~Raises(fn, a) =>
                      get_result(rm.st, other, a).st.called_count[fn]
                          = called_count[fn] + 1
           /\ \A other \in Refs \ RefsOf(fn) :
                  /\ other \in DOMAIN rm.st.results_cache
                         <=> other \in DOMAIN results_cache
                  /\ other \in DOMAIN results_cache =>
                         rm.st.results_cache[other] = results_cache[other]

\* C6: an LRUCache never holds more than max_cache_size entries, and while
\* nothing was removed by hand it holds as many entries as were stored, up to
\* max_cache_size: storing max_cache_size + 1 keys leaves max_cache_size.
C6_LRUBound ==
    /\ Cardinality(Pairs(results_cache)) <= max_cache_size
    /\ ~hist.removed =>
           Cardinality(Pairs(results_cache)) = Min(max_cache_size, hist.stored)

\* the call that stored entry max_cache_size + 1 evicted one entry
C6_Witness ==
    /\ cls = "LRUCache"
    /\ ~hist.removed
    /\ hist.stored > max_cache_size
    /\ hist.evictions # <<>>
    /\ Cardinality(Pairs(results_cache)) = max_cache_size

\* C7: every eviction of an LRUCache takes the cached pair whose last lookup
\* is the oldest, and never the pair that the lookup before hit while another
\* pair is cached.
C7_LRUVictim ==
    \A i \in 1..Len(hist.evictions) :
        /\ hist.evictions[i].is_lru
        /\ ~(hist.evictions[i].after_hit /\ hist.evictions[i].others)

\* C8 as amended: hits_total + misses_total is the number of get_result
\* invocations that returned a value, and the per-function hit and miss
\* counters sum to the totals.
C8_TrackingAccuracy ==
    /\ hits_total + misses_total = hist.returned
    /\ SumValues(hits_by_func) = hits_total
    /\ SumValues(misses_by_func) = misses_total

\* C8 as stated: hits_total + misses_total is the number of get_result
\* invocations, and the per-function counters sum to the totals.
C8_AsStated ==
    /\ hits_total + misses_total = hist.lookups
    /\ SumValues(hits_by_func) = hits_total
    /\ SumValues(misses_by_func) = misses_total

\* hits and misses were counted, and one get_result raised out of f
C8_Witness ==
    /\ cls = "TrackingMemoizer"
    /\ hits_total >= 1 /\ misses_total >= 1
    /\ hist.lookups > hist.returned

\* the nodes that hold a RemoteCacheWrapper
Up == {n \in Nodes : node[n].pc \notin {"absent", "init_create", "failed", "dead"}}

\* C9: no two nodes are Host of the address together, whatever the
\* interleaving of the constructors, the kills of the Host and the
\* re-elections; and when the nodes were started one after the other, every
\* constructor returns and one of the nodes is the Host, the others being
\* its Clients.
C9_SingleHost ==
    /\ Cardinality(Hosts) <= 1
    /\ (~env.overlap /\ env.kills = 0) =>
           /\ \A n \in Nodes : node[n].pc # "failed"
           /\ Up # {} => Cardinality(Hosts) = 1 /\ Hosts \subseteq Up

\* after a kill of the Host, one node is the Host and the bind of another
\* node was refused
C9_Witness ==
    /\ env.kills >= 1
    /\ Cardinality(Hosts) = 1
    /\ \E n \in Nodes \ Hosts : node[n].exc = "EOFError"

\* C10: a remote operation of any kind that is invoked when the Host is gone,
\* and is not disturbed by a further kill, ends without a connection,
\* transport or attribute error, with one node being the Host; the invoking
\* node is that Host when it is the only node left.
C10_Failover ==
    \A n \in Nodes :
        (node[n].pc = "done" /\ node[n].orphan /\ ~node[n].disturbed) =>
            /\ node[n].exc \in {None, "RemoteError"}
            /\ Cardinality(Hosts) = 1
            /\ Up = {n} => n \in Hosts

\* C11: one call of a remote operation runs the operation at most twice and
\* the election at most once; it runs the operation a second time only after
\* the first was refused and the election was run, and a call that ends with
\* a refused connection has run the operation twice.
C11_BoundedRetry ==
    \A n \in Nodes :
        /\ node[n].attempts <= 2
        /\ node[n].elections <= 1
        /\ node[n].attempts = 2 => node[n].elections = 1 /\ node[n].orphan
        /\ node[n].pc \in {"re_connect", "re_create", "retry"} =>
               node[n].attempts = 1 /\ node[n].elections = 1
        /\ (node[n].pc = "done" /\ node[n].exc = "ConnectionRefusedError") =>
               node[n].attempts = 2

\* the second attempt of a remote call was refused and the call ended with it
C11_Witness ==
    \E n \in Nodes :
        /\ node[n].pc = "done"
        /\ node[n].exc = "ConnectionRefusedError"
        /\ node[n].attempts = 2 /\ node[n].elections = 1

\* C12: while the value a node set for key k was not overwritten or deleted
\* and the Host was not killed, a get(k) that any node sends to the address,
\* at its first attempt or at its retry, returns that value; the node may
\* have constructed its RemoteCacheWrapper after the set.
C12_Visibility ==
    [][\A n \in Nodes : \A key \in RemoteKeys :
           (/\ node[n].pc \in {"idle", "retry"}
            /\ node'[n].pc = "done"
            /\ node'[n].op = RemoteOp("get", key, None)
            /\ env.written[key] # NoWrite) =>
               /\ node'[n].exc = None
               /\ node'[n].value = env.written[key].value]_vars

\* a node got the value that another node had set
C12_Witness ==
    \E n \in Nodes : \E key \in RemoteKeys :
        /\ node[n].pc = "done" /\ node[n].op = RemoteOp("get", key, None)
        /\ node[n].exc = None
        /\ env.written[key].by \notin {None, n}
        /\ node[n].value = env.written[key].value

\* C13: an election, in the constructor or after a refused remote call,
\* begins with the attempt to bind the address as Host, and a bind that fails
\* because a server already listens at the address leaves the node a Client
\* of that server: the constructor returns, the remote call goes on to its
\* retry.
C13_ElectionOrder ==
    [][\A n \in Nodes :
           /\ (node[n].pc = "absent" /\ node'[n].pc # "absent") =>
                  node'[n].pc = "init_create"
           /\ (node[n].pc = "re_connect" /\ node'[n].pc # "re_connect") =>
                  node'[n].pc = "re_create"
           /\ (/\ node[n].pc \in {"init_create", "re_create"}
               /\ node'[n].pc # node[n].pc
               /\ ~manager_start(cache_server)) =>
                  node'[n].pc \in {"idle", "retry"}]_vars

\* C14: when no get_result is in progress, the store of a function on the
\* Host is the whole snapshot that the last completed write-back sent,
\* whatever the other nodes wrote between that node's read and its write; the
\* entry another node wrote for a different key is then lost (the witness),
\* no lock prevents it.
C14_LastWriteWins ==
    ((\A n \in Nodes : node[n].pc \in {"idle", "absent"}) /\ last.op = "write_back") =>
        getitem(cache_server[TheHost].cache, last.function).value = last.new_cache

\* two nodes completed the write-back of a get_result miss for different keys
\* of f, and the store on the Host lacks the entry one of them wrote
C14_Witness ==
    \E n \in Nodes : \E m \in Nodes \ {n} :
        /\ node[n].pc = "idle" /\ node[m].pc = "idle"
        /\ node[n].op # NoOp /\ node[m].op # NoOp
        /\ node[n].op.wrote /\ node[m].op.wrote
        /\ node[n].op.function = node[m].op.function
        /\ node[n].op.params # node[m].op.params
        /\ last.kind = n
        /\ node[m].op.params \notin
               DOMAIN getitem(cache_server[TheHost].cache, node[m].op.function).value

\* C15: a call of the memoized wrapper during which the user function raised
\* ends with that exception and returns no value.
C15_UserExceptionPropagates ==
    \A fn \in Memoized : \A a \in ArgsOf(fn) :
        get_result(Self, Ref(fn, FALSE), a).exc = "UserError" =>
            memoized(Self, fn, a).exc = "UserError"

\* C16: when get_result fails in its own bookkeeping (the key cannot be
\* made, or the decay hook or the final read of the store raises) and not in
\* the user function, the wrapped call raises nothing and returns what a fresh
\* direct invocation of the function returned for that call.
C16_ResilientFallback ==
    \A fn \in Memoized : \A a \in ArgsOf(fn) :
        LET looked == get_result(Self, Ref(fn, FALSE), a)
            called == memoized(Self, fn, a)
        IN looked.exc \notin {None, "UserError"} =>
               /\ called.exc = None
               /\ called.value.fn = fn /\ called.value.a = a
               /\ called.value.t = called.st.called_count[fn]
               /\ called.st.called_count[fn] > called_count[fn]

\* a wrapped call is about to fall back: get_result would fail in the decay
\* hook for one argument set, and in the making of the key for another
C16_Witness ==
    /\ \E a \in ArgsOf("f") :
           Picklable(a) /\ get_result(Self, Ref("f", FALSE), a).exc = "KeyError"
    /\ get_result(Self, Ref("f", FALSE), UnpicklableArgs).exc = "PicklingError"

\* what remove_from_cache(function, params) is asked to remove is cached:
\* the store of the function or of the function it wraps, or the entry with
\* the key params in one of the two stores
RemovalTarget(function, params) ==
    LET w == wrapped_func(function)
    IN IF params = NoParams
       THEN function \in DOMAIN results_cache \/ (w # NoRef /\ w \in DOMAIN results_cache)
       ELSE /\ params.kind = "key"
            /\ \/ Cached(results_cache, function, process_params(params.a))
               \/ w # NoRef /\ Cached(results_cache, w, process_params(params.a))

\* C17: on a local Memoizer, remove_from_cache of an entry or of a function
\* that is not cached raises nothing and leaves every store and every entry
\* of the cache as it was.
C17_SilentRemoval ==
    \A function \in Refs : \A params \in ParamsOf(function.name) :
        ~RemovalTarget(function, params) =>
            LET rm == remove_from_cache(Self, function, params)
            IN /\ rm.exc = None
               /\ rm.st.results_cache = results_cache
               /\ rm.st.called_count = called_count

\* entries are cached, and the last operation was a removal that found
\* nothing to remove and changed nothing
C17_Witness ==
    /\ cls = "Memoizer"
    /\ Pairs(results_cache) # {}
    /\ last.op = "remove" /\ ~last.hit /\ last.exc = None
    /\ \E function \in Refs : \E params \in ParamsOf(function.name) :
           params.kind = last.kind /\ ~RemovalTarget(function, params)

\* C18: on a SharedMemoizer, remove_from_cache of an entry that is not
\* cached, or with no arguments of a function that has no store, raises
\* KeyError and leaves the mapping of the Host as it was, for the wrapper of a
\* function and for a plain function alike.
C18_SharedRemovalNotFound ==
    \A function \in Refs : \A a \in (ArgsOf(function.name) \cup {NoArgs}) :
        LET S == SelfShared
            original == Ref(function.name, FALSE)
            rm == shared_remove_from_cache(S, function, a)
            cached == IF a = NoArgs THEN contains(S.cache, original)
                      ELSE SharedCached(S.cache, original, process_params(a))
        IN ~cached => rm.exc = "KeyError" /\ rm.st.cache = S.cache

\* argument sets for the comparison of keys: those the functions are called
\* with, and others that differ from them in one value, one name or the place
\* of an argument
KeyInputs ==
    Positional \cup Keyword \cup
    {NoArgs,
     Args(<<>>, << <<"x", 2>>, <<"y", 1>> >>),
     Args(<<>>, << <<"y", 1>>, <<"x", 2>> >>),
     Args(<<>>, << <<"x", 1>> >>),
     Args(<<1>>, << <<"y", 2>> >>),
     Args(<<1>>, << <<"x", 1>>, <<"y", 2>> >>),
     Args(<<1>>, << <<"y", 2>>, <<"x", 1>> >>),
     Args(<<1, 2>>, <<>>),
     Args(<<2, 1>>, <<>>)}

\* the same positional arguments and the same keyword name/value pairs
SameArguments(a, b) ==
    /\ a.args = b.args
    /\ Len(a.kwargs) = Len(b.kwargs)
    /\ {a.kwargs[i] : i \in DOMAIN a.kwargs} = {b.kwargs[i] : i \in DOMAIN b.kwargs}

\* C19: with sort_kwargs, two argument sets have the same key exactly when
\* they have the same positional arguments and the same keyword pairs,
\* whatever the order of the keywords; and a get_result or wrapped call with
\* the arguments of a cached entry in another keyword order is a hit: it
\* returns the stored result and does not invoke the function.
C19_KeyEquivalence ==
    sort_kwargs =>
        /\ \A a \in KeyInputs : \A b \in KeyInputs :
               SameArguments(a, b) <=> process_params(a) = process_params(b)
        /\ \A a \in ArgsOf("f") : \A b \in KeyInputs :
               (/\ SameArguments(a, b)
                /\ Cached(results_cache, Ref("f", FALSE), process_params(a))) =>
                   \A r \in {get_result(Self, Ref("f", FALSE), b), memoized(Self, "f", b)} :
                       /\ r.exc = None
                       /\ r.value = results_cache[Ref("f", FALSE)][process_params(a)]
                       /\ r.st.called_count = called_count

\* a lookup with keywords in one order was a hit on the entry stored by the
\* invocation with the keywords in the other order
C19_Witness ==
    /\ sort_kwargs
    /\ last.op \in {"call", "get_result"} /\ last.hit /\ last.exc = None
    /\ last.a \in Keyword
    /\ \E pr \in Pairs(results_cache) :
           /\ pr[2] = process_params(last.a)
           /\ results_cache[pr[1]][pr[2]].a \in Keyword \ {last.a}

\* C20: a get, set, delete or contains that node n invokes for key k, answered
\* at the first attempt or at the retry after a re-election, reads or changes
\* the entry of the Host at key_preprocessor(k), the preprocessor of n applied
\* once, and no other entry; for a node with the default preprocessor that is
\* the entry at k itself.
C20_KeyPreprocessing ==
    [][\A n \in Nodes :
           (/\ node[n].pc \in {"idle", "retry"}
            /\ node'[n].pc = "done"
            /\ Hosts # {}
            /\ node'[n].op.kind \in {"get", "set", "delete", "contains"}) =>
               LET hk == key_preprocessor(n, node'[n].key)
                   C == cache_server[TheHost].cache
                   D == cache_server'[TheHost].cache
                   kind == node'[n].op.kind
                   exc == node'[n].exc
                   value == node'[n].value
               IN /\ n # "n2" => hk = node'[n].key
                  /\ kind = "get" =>
                         /\ D = C
                         /\ IF hk \in DOMAIN C THEN exc = None /\ value = C[hk]
                            ELSE exc = "RemoteError"
                  /\ kind = "set" =>
                         exc = None /\ D = Put(C, hk, node'[n].op.value)
                  /\ kind = "delete" =>
                         IF hk \in DOMAIN C THEN exc = None /\ D = Del(C, hk)
                         ELSE exc = "RemoteError" /\ D = C
                  /\ kind = "contains" =>
                         /\ D = C /\ exc = None
                         /\ value = IF hk \in DOMAIN C THEN "True" ELSE "False"]_vars

\* a node with the default preprocessor got, at the retry after its
\* re-election, the value that the node with the reversing preprocessor had
\* set for the reversed key
C20_Witness ==
    \E n \in Nodes \ {"n2"} :
        /\ node[n].pc = "done" /\ node[n].attempts = 2
        /\ node[n].op.kind = "get" /\ node[n].exc = None
        /\ node[n].key = "ba"
        /\ env.written["ba"].by = "n2"
        /\ node[n].value = env.written["ba"].value
        /\ node["n2"].key = "ab"

\* an answered get of node n for the key of the Host: the step in which the
\* server that listens at the address answers the first attempt or the retry
AnsweredGet(n, key) ==
    /\ node[n].pc \in {"idle", "retry"}
    /\ node'[n].pc = "done"
    /\ Hosts # {}
    /\ node'[n].op = RemoteOp("get", key, None)

\* C21 as amended: while the Host that answered set(k, v) stays up, get(k)
\* returns v until the next set or delete of k; a get of a key the Host does
\* not hold (never set, deleted, or set on a Host that is gone) raises an
\* error, returns no value and leaves the mapping of the Host as it was.
C21_GetSetContract ==
    [][\A n \in Nodes : \A key \in RemoteKeys :
           AnsweredGet(n, key) =>
               IF env.written[key] # NoWrite
               THEN /\ node'[n].exc = None
                    /\ node'[n].value = env.written[key].value
                    /\ cache_server' = cache_server
               ELSE /\ node'[n].exc = "RemoteError"
                    /\ node'[n].value = None
                    /\ cache_server' = cache_server]_vars

\* C21 as stated: after set(k, v), get(k) returns v until the next set or
\* delete of k.
C21_AsStated ==
    [][\A n \in Nodes : \A key \in RemoteKeys :
           (AnsweredGet(n, key) /\ env.kept[key] # None) =>
               node'[n].exc = None /\ node'[n].value = env.kept[key]]_vars

\* a node got the value it had set itself, and the Host holds it
C21_Witness ==
    \E n \in Nodes : \E key \in RemoteKeys :
        /\ node[n].pc = "done" /\ node[n].op = RemoteOp("get", key, None)
        /\ node[n].exc = None
        /\ env.written[key].by = n
        /\ node[n].value = env.written[key].value
        /\ env.kills >= 1

\* the calls of handle_cache_decay for <<function, params>> in a history
FiredFor(fired, function, params) ==
    SelectSeq(fired, LAMBDA h : h.function = function /\ h.params = params)

CountOf(counters, function) ==
    IF function \in DOMAIN counters THEN counters[function] ELSE 0

\* C22: a get_result(function, a) that returns has called the decay hook
\* once for its pair, with was_hit true exactly when the pair was cached when
\* the call began; at a miss the hook runs after the function was invoked
\* (once, when the reference is the function itself and not its wrapper) and
\* its result stored; a TrackingMemoizer counted the call once, as the hit or
\* as the miss it was.
C22_DecayHookOnce ==
    \A function \in Refs : \A a \in ArgsOf(function.name) :
        LET r == get_result(Self, function, a)
            params == process_params(a)
            was == Cached(results_cache, function, params)
            mine == FiredFor(r.st.hist.fired, function, params)
            fn == function.name
        IN r.exc = None =>
               /\ Len(mine) = 1
               /\ mine[1].was_hit = was
               /\ mine[1].stored
               /\ mine[1].called[fn] = r.st.called_count[fn]
               /\ (~was /\ ~function.wrapper) =>
                      r.st.called_count[fn] = called_count[fn] + 1
               /\ was => r.st.called_count = called_count
               /\ cls = "TrackingMemoizer" =>
                      /\ CountOf(r.st.hits_by_func, function)
                             = CountOf(hits_by_func, function) + (IF was THEN 1 ELSE 0)
                      /\ CountOf(r.st.misses_by_func, function)
                             = CountOf(misses_by_func, function) + (IF was THEN 0 ELSE 1)

\* a get_result that missed has returned: its hook ran once, after the
\* invocation, and found the new entry in the store; hits were counted before
C22_Witness ==
    /\ cls = "TrackingMemoizer"
    /\ last.op = "get_result" /\ ~last.hit /\ last.exc = None
    /\ hist.fired # <<>>
    /\ LET h == hist.fired[Len(hist.fired)]
       IN ~h.was_hit /\ h.stored /\ h.called = called_count
    /\ hits_total >= 1 /\ misses_total >= 1

\* the number of elements of the queue that are the pair
Occurrences(q, fp) == Cardinality({i \in DOMAIN q : q[i] = fp})

\* C23: on an LRUCache, after every completed operation the recency queue
\* holds one element for each cached pair and none for a pair that is not
\* cached.
C23_QueueMatchesStore ==
    /\ \A fp \in Pairs(results_cache) : Occurrences(cache_queue, fp) = 1
    /\ \A i \in DOMAIN cache_queue : cache_queue[i] \in Pairs(results_cache)

\* the entries of before are in after with the results they had
EntriesKept(before, after) ==
    \A pr \in Pairs(before) :
        pr \in Pairs(after) /\ after[pr[1]][pr[2]] = before[pr[1]][pr[2]]

\* C24: on a base Memoizer, a get_result(function, a) or a wrapped call,
\* whether it returns or raises, keeps every entry with its result and adds
\* entries only for the key of a, under the function looked up or the one it
\* wraps, that were not cached before; a hit leaves the whole cache as it was;
\* remove_from_cache adds and changes no entry.
C24_EntryLifecycle ==
    /\ \A function \in Refs : \A a \in ArgsOf(function.name) :
           LET fn == function.name
               params == process_params(a)
               looked == get_result(Self, function, a)
               called == IF fn \in Memoized THEN memoized(Self, fn, a) ELSE looked
           IN /\ \A r \in {looked, called} :
                     /\ EntriesKept(results_cache, r.st.results_cache)
                     /\ \A pr \in Pairs(r.st.results_cache) \ Pairs(results_cache) :
                            pr[2] = params /\ pr[1] \in RefsOf(fn)
              /\ Cached(results_cache, function, params) =>
                     looked.st.results_cache = results_cache
              /\ Cached(results_cache, Ref(fn, FALSE), params) =>
                     called.st.results_cache = results_cache
    /\ \A function \in Refs : \A params \in ParamsOf(function.name) :
           LET rm == remove_from_cache(Self, function, params)
           IN EntriesKept(rm.st.results_cache, results_cache)

\* with two entries cached, the last get_result was a hit
C24_Witness ==
    /\ cls = "Memoizer"
    /\ Cardinality(Pairs(results_cache)) >= 2
    /\ last.op = "get_result" /\ last.hit /\ last.exc = None

\* C25: a node begins an election in a remote call only when its operation
\* found nobody listening at the address (connection refused). An operation
\* that ends with any other error (the missing key the Host reports, the
\* reset of a connection to a Host that stopped answering) ends the call
\* there: no election, no further attempt, the node's role unchanged; and
\* while the Host is bound but unresponsive a waiting node does nothing.
C25_ElectionOnlyOnRefusal ==
    [][\A n \in Nodes :
           /\ (node'[n].pc = "re_connect" /\ node[n].pc # "re_connect") =>
                  node[n].pc = "idle" /\ Hosts = {}
           /\ (/\ node[n].pc \in {"idle", "retry", "waiting"}
               /\ node'[n].pc = "done"
               /\ node'[n].exc \notin {None, "ConnectionRefusedError"}) =>
                  /\ node'[n].elections = (IF node[n].pc = "idle" THEN 0
                                           ELSE node[n].elections)
                  /\ node'[n].attempts = (IF node[n].pc = "idle" THEN 1
                                          ELSE IF node[n].pc = "retry" THEN 2
                                          ELSE node[n].attempts)
                  /\ cache_server'[n].listening = cache_server[n].listening
                  /\ node'[n].registered = node[n].registered
           /\ node[n].pc = "done" => node'[n].pc \in {"done", "idle", "dead"}
           /\ (node[n].pc = "waiting" /\ Hosts' # {}) => node'[n] = node[n]]_vars

\* a call to a Host that had stopped answering ended with the reset of its
\* connection when the Host went away: the node ran no election and nobody
\* is Host; another call ended with the missing key the Host reported
C25_Witness ==
    /\ \E n \in Nodes :
           /\ node[n].pc = "done" /\ node[n].exc = "ConnectionResetError"
           /\ node[n].attempts = 1 /\ node[n].elections = 0
           /\ ~cache_server[n].listening
    /\ \E n \in Nodes :
           /\ node[n].pc = "done" /\ node[n].exc = "RemoteError"
           /\ node[n].attempts = 1 /\ node[n].elections = 0
    /\ Hosts = {}

\* C26: a call through the memoized wrapper invokes the underlying function
\* at most once: not at all when the argument set is cached, and no more than
\* once otherwise, whatever the function or the bookkeeping after it does.
C26_AtMostOneInvocation ==
    \A fn \in Memoized : \A a \in ArgsOf(fn) :
        LET called == memoized(Self, fn, a)
            hit == Picklable(a)
                   /\ Cached(results_cache, Ref(fn, FALSE), process_params(a))
        IN /\ called.st.called_count[fn] <= called_count[fn] + 1
           /\ (hit /\ get_result(Self, Ref(fn, FALSE), a).exc = None) =>
                  called.st.called_count[fn] = called_count[fn]

\* C27: on an LRUCache with capacity at least one, get_result(f, a) for an
\* argument set that has a key and on which f does not raise ends without an
\* exception and returns a value of f for a, in every state that get_result
\* and remove_from_cache calls lead to.
C27_LRUAlwaysReturns ==
    (cls = "LRUCache" /\ max_cache_size >= 1) =>
        \A fn \in Functions : \A a \in ArgsOf(fn) :
            (Picklable(a) /\ ~Raises(fn, a) /\ ~RaisesOnce(Self, fn, a)) =>
                LET looked == get_result(Self, Ref(fn, FALSE), a)
                IN /\ looked.exc = None
                   /\ looked.value.fn = fn
                   /\ process_params(looked.value.a) = process_params(a)

\* C28: on a SharedMemoizer a get_result(f, a) whose user function does not
\* raise ends, in every interleaving with the get_result and remove_from_cache
\* calls of the other nodes, without an exception and with a value of f for a.
C28_SharedGetResultReturns ==
    \A n \in Nodes :
        (/\ node[n].pc = "idle" /\ node[n].op # NoOp
         /\ node[n].op.call = "get_result") =>
            /\ node[n].exc = None
            /\ node[n].value.fn = node[n].op.function.name
            /\ process_params(node[n].value.a) = node[n].op.params

\* C29: a get_result(function, a) of a pair that is not cached, during which
\* the user function raises, ends with that exception, has stored no entry for the pair and has not called the
\* decay hook: the counters and the recency queue are what they were; the next
\* get_result of the pair does not hit, it invokes the function again.
C29_RaisingMissLeavesNoTrace ==
    \A function \in Refs : \A a \in ArgsOf(function.name) :
        LET params == process_params(a)
            looked == get_result(Self, function, a)
            next == get_result(looked.st, function, a)
        IN (/\ ~Cached(results_cache, function, params)
            /\ \/ Raises(function.name, a)
               \/ ~function.wrapper /\ RaisesOnce(Self, function.name, a)) =>
               /\ looked.exc = "UserError"
               /\ looked.st.called_count[function.name] > called_count[function.name]
               /\ ~Cached(looked.st.results_cache, function, params)
               /\ looked.st.hist.fired = <<>>
               /\ looked.st.cache_queue = cache_queue
               /\ looked.st.hits_total = hits_total
               /\ looked.st.misses_total = misses_total
               /\ looked.st.hits_by_func = hits_by_func
               /\ looked.st.misses_by_func = misses_by_func
               /\ next.st.called_count[function.name]
                      > looked.st.called_count[function.name]
               /\ \A i \in 1..Len(next.st.hist.fired) :
                      (next.st.hist.fired[i].function = function
                       /\ next.st.hist.fired[i].params = params) =>
                          ~next.st.hist.fired[i].was_hit

\* a get_result of f ended with the exception f raised, after earlier lookups
\* had been counted, and the pair is not cached
C29_Witness ==
    /\ last.op = "get_result" /\ last.exc = "UserError" /\ ~last.hit
    /\ misses_total >= 1
    /\ called_count["f"] >= 2
    /\ ~Cached(results_cache, Ref("f", FALSE), process_params(last.a))

\* C30: after the Host failed, the node whose call creates the new server is
\* answered by an empty mapping: its get_result(f, a) finds nothing of the
\* failed Host, invokes f once and stores the one entry; a get_result(f, a)
\* that follows on any node is answered by the new Host, returns that entry
\* and invokes nothing.
C30_FailoverStartsEmpty ==
    (Hosts = {} /\ env.kills > 0) =>
        \A fn \in Functions : \A a \in ArgsOf(fn) :
            (Picklable(a) /\ ~Raises(fn, a) /\ ~RaisesOnce(SelfShared, fn, a)) =>
                LET function == Ref(fn, FALSE)
                    params == process_params(a)
                    first == shared_get_result(SelfShared, function, a)
                    later == shared_get_result(first.st, function, a)
                IN /\ SelfShared.cache = EmptyDict
                   /\ first.exc = None
                   /\ first.st.called_count = [called_count EXCEPT ![fn] = @ + 1]
                   /\ first.value = [fn |-> fn, t |-> called_count[fn] + 1, a |-> a]
                   /\ DOMAIN first.st.cache = {serialize_function(function)}
                   /\ getitem(first.st.cache, function).value = Put(EmptyDict, params, first.value)
                   /\ later.exc = None
                   /\ later.value = first.value
                   /\ later.st = first.st

\* the Host failed with an entry of f in its mapping; the get_result of a
\* survivor made it the new Host and invoked f again, and the get_result of
\* another node, a Client of the new Host, was a hit
C30_Witness ==
    /\ env.kills > 0 /\ env.lost # EmptyDict
    /\ last.op = "get_result" /\ last.hit /\ last.exc = None
    /\ Hosts # {} /\ last.by \notin Hosts
    /\ node[TheHost].registered
    /\ called_count["f"] = 2
    /\ \E k \in DOMAIN cache_server[TheHost].cache :
           /\ k \in DOMAIN env.lost
           /\ DOMAIN cache_server[TheHost].cache[k] = DOMAIN env.lost[k]
           /\ cache_server[TheHost].cache[k] # env.lost[k]

====
